---- MODULE Spec2Model ----
(***************************************************************************)
(* Model of organizer.py: the file organizer of the social media data      *)
(* collector.  A watchdog observer thread delivers creation events of the  *)
(* watch folder to DatasetFileHandler.on_created, one at a time, while the *)
(* main thread sleeps until it is interrupted.  File names are sequences   *)
(* of one-character strings so that split, lower and splitext are computed *)
(* as Python computes them.                                                *)
(***************************************************************************)
EXTENDS Integers, Sequences, FiniteSets, TLC

(***************************************************************************)
(* Bounds of the model.                                                    *)
(***************************************************************************)
MaxArrivals == 3          \* entries created in the watch folder
MaxTicks == 1             \* seconds the clock advances
Now0 == 1730912345        \* int(time.time()) when the program starts
MaxHistory == 2           \* finished handler calls kept on record

(***************************************************************************)
(* Configuration (organizer.py lines 31-48).                               *)
(***************************************************************************)
DEST_BASE == <<"C:/Users/offrk/Desktop/dataset">>

PLATFORMS ==
  << <<"t","w","i","t","t","e","r">>,
     <<"i","n","s","t","a","g","r","a","m">>,
     <<"f","a","c","e","b","o","o","k">>,
     <<"w","h","a","t","s","a","p","p">>,
     <<"l","i","n","k","e","d","i","n">>,
     <<"r","e","d","d","i","t">>,
     <<"d","i","s","c","o","r","d">>,
     <<"t","h","r","e","a","d","s">>,
     <<"y","o","u","t","u","b","e">>,
     <<"s","n","a","p","c","h","a","t">> >>

IMAGE_EXT == <<".","j","p","g">>
LABEL_EXT == <<".","t","x","t">>

(***************************************************************************)
(* String functions of Python, on sequences of characters.                 *)
(***************************************************************************)
UpperChars == <<"A","B","C","D","E","F","G","H","I","J","K","L","M",
                "N","O","P","Q","R","S","T","U","V","W","X","Y","Z">>
LowerChars == <<"a","b","c","d","e","f","g","h","i","j","k","l","m",
                "n","o","p","q","r","s","t","u","v","w","x","y","z">>

\* str.lower() on one character
LowerChar(c) ==
  IF \E i \in 1..26 : UpperChars[i] = c
    THEN LowerChars[CHOOSE i \in 1..26 : UpperChars[i] = c]
    ELSE c

\* str.lower()
Lower(s) == [i \in 1..Len(s) |-> LowerChar(s[i])]

\* str.find(c) + 1: the first position of c in s, 0 when absent
Find(s, c) ==
  IF \E i \in 1..Len(s) : s[i] = c
    THEN CHOOSE i \in 1..Len(s) : s[i] = c /\ \A j \in 1..(i-1) : s[j] # c
    ELSE 0

\* str.rfind(c) + 1: the last position of c in s, 0 when absent
RFind(s, c) ==
  IF \E i \in 1..Len(s) : s[i] = c
    THEN CHOOSE i \in 1..Len(s) : s[i] = c /\ \A j \in (i+1)..Len(s) : s[j] # c
    ELSE 0

RECURSIVE Split(_)
\* filename.split('_')
Split(s) ==
  LET i == Find(s, "_")
  IN  IF i = 0 THEN <<s>>
      ELSE <<SubSeq(s, 1, i-1)>> \o Split(SubSeq(s, i+1, Len(s)))

\* os.path.splitext(filename) of a name without directory separators:
\* split at the last dot unless only dots precede it
SplitExt(s) ==
  LET d == RFind(s, ".")
  IN  IF d > 0 /\ \E j \in 1..(d-1) : s[j] # "."
        THEN <<SubSeq(s, 1, d-1), SubSeq(s, d, Len(s))>>
        ELSE <<s, <<>> >>

\* str.endswith(suffix)
EndsWith(s, suffix) ==
  /\ Len(suffix) <= Len(s)
  /\ SubSeq(s, Len(s) - Len(suffix) + 1, Len(s)) = suffix

Digit(d) == <<"0","1","2","3","4","5","6","7","8","9">>[d + 1]

RECURSIVE Str(_)
\* str(n) of a natural number, as the f-string formats int(time.time())
Str(n) == IF n < 10 THEN <<Digit(n)>> ELSE Str(n \div 10) \o <<Digit(n % 10)>>

\* x in list
InList(x, list) == \E i \in 1..Len(list) : list[i] = x

\* os.path.join(DEST_BASE, platform, sub)
Folder(platform, sub) == <<platform, sub>>

\* os.path.join(dest_folder, filename)
JoinPath(folder, filename) == <<folder[1], folder[2], filename>>

\* the text of a destination path as the f-string prints it
PathText(p) == DEST_BASE \o <<"/">> \o p[1] \o <<"/">> \o p[2] \o <<"/">> \o p[3]


(***************************************************************************)
(* The file names that arrive in the watch folder.                         *)
(***************************************************************************)
NameReddit == <<"r","e","d","d","i","t","_","1","_","1",".","t","x","t">>
NameUpper == <<"T","w","i","t","t","e","r","_","1","_","1",".","J","P","G">>
NameTiktok == <<"T","I","K","T","O","K","_","1","2","3","_","1",".","j","p","g">>
NameShort == <<"t","i","k","t","o","k",".","j","p","g">>
NameShortKnown == <<"r","e","d","d","i","t","_","1",".","t","x","t">>
NamePng == <<"t","w","i","t","t","e","r","_","1","_","1",".","p","n","g">>
NameTwitter == <<"t","w","i","t","t","e","r","_","1","7","3","0","9","1","2","3","4","5","6","7","8","_","0","3","4","7",".","j","p","g">>
NameTiktokPng == <<"t","i","k","t","o","k","_","1","_","1",".","p","n","g">>

Names == {NameReddit, NameUpper, NameTiktok, NameShort, NameShortKnown,
          NamePng, NameTwitter, NameTiktokPng}
DirNames == {NameReddit}

\* The names one run of the model follows: files of different names never
\* meet at a destination path, so a run follows the arrivals of one name.
Families == {{n} : n \in Names}

IMAGES == <<"images">>
LABELS == <<"labels">>
NoFolder == <<>>
NoPath == <<>>
NoName == <<>>

VARIABLES
  mpc,       \* position of the main thread in main()
  obs,       \* the observer thread: new, running, stopping, stopped, crashed
  queue,     \* creation events the observer has not dispatched yet
  wpc,       \* position of the handler: Idle, Settling, Dispatching, Moving
  cur,       \* filename of the event the handler works on
  curDest,   \* dest_path handed to shutil.move
  out,       \* the lines the running handler call has printed
  done,      \* the last finished handler calls: filename, whether
             \* process_file ran, the lines it printed, the path the file
             \* was moved to
  staging,   \* WATCH_FOLDER: name -> [id, isdir]
  dest,      \* files of the destination tree: path -> id of the content
  dirs,      \* directories of the destination tree
  clock,     \* time.time(), in whole seconds
  arrivals,  \* entries created in the watch folder so far
  family,    \* the names the producers of this run use
  stats      \* the counts print_statistics printed last

vars == <<mpc, obs, queue, wpc, cur, curDest, out, done, staging, dest, dirs,
          clock, arrivals, family, stats>>

\* the status lines of the calls on record and of the running call, in order
RECURSIVE Flatten(_)
Flatten(calls) ==
  IF calls = <<>> THEN <<>> ELSE Head(calls).lines \o Flatten(Tail(calls))

Log == Flatten(done) \o out

Line(kind, text) == [kind |-> kind, text |-> text]

(***************************************************************************)
(* process_file, lines 92-130: the decisions before the move.              *)
(***************************************************************************)
\* line 94 with the bound off by one: two segments are accepted
ValidFormatTwo(parts) == Len(parts) >= 2

\* line 94: len(parts) < 3 is rejected
ValidFormat(parts) == Len(parts) >= 3

\* line 99
PlatformOf(parts) == Lower(parts[1])

\* line 102 left out: every platform is accepted
ValidPlatformAny(platform) == TRUE

\* line 102
ValidPlatform(platform) == InList(platform, PLATFORMS)

\* line 107 without .lower()
ExtensionOfAsWritten(filename) == SplitExt(filename)[2]

\* line 107
ExtensionOf(filename) == Lower(SplitExt(filename)[2])

\* lines 110-116 without the else branch: any other extension is an image
DestFolderAnyExtension(platform, extension) ==
  IF extension = LABEL_EXT THEN Folder(platform, LABELS)
  ELSE Folder(platform, IMAGES)

\* lines 110-116
DestFolder(platform, extension) ==
  IF extension = IMAGE_EXT THEN Folder(platform, IMAGES)
  ELSE IF extension = LABEL_EXT THEN Folder(platform, LABELS)
  ELSE NoFolder

\* lines 128-129 without the marker: the duplicate keeps its name
NewFilenameUnchanged(filename, now) == filename

\* lines 128-129 without the timestamp
NewFilenameNoTime(filename, now) ==
  SplitExt(filename)[1] \o <<"_","d","u","p">> \o SplitExt(filename)[2]

\* lines 128-129
NewFilename(filename, now) ==
  LET base == SplitExt(filename)[1]
      ext == SplitExt(filename)[2]
  IN  base \o <<"_","d","u","p","_">> \o Str(now) \o ext

\* lines 122-130 without the existence check: always a new name
DestPathAlwaysNew(folder, filename, files, now) ==
  JoinPath(folder, NewFilename(filename, now))

\* lines 122-130: the path handed to the move
DestPath(folder, filename, files, now) ==
  IF JoinPath(folder, filename) \in files
    THEN JoinPath(folder, NewFilename(filename, now))
    ELSE JoinPath(folder, filename)

NoLine == <<>>

\* lines 94-116 with the extension checked before the platform
RejectionExtensionFirst(filename) ==
  LET parts == Split(filename)
      platform == PlatformOf(parts)
      extension == ExtensionOf(filename)
  IN  IF ~ValidFormat(parts) THEN Line("Invalid filename format", filename)
      ELSE IF DestFolder(platform, extension) = NoFolder
        THEN Line("Unknown file extension", extension)
      ELSE IF ~ValidPlatform(platform) THEN Line("Unknown platform", platform)
      ELSE NoLine

\* lines 94-116: the warning of the first check that fails, NoLine when the
\* filename passes the three checks
Rejection(filename) ==
  LET parts == Split(filename)
      platform == PlatformOf(parts)
      extension == ExtensionOf(filename)
  IN  IF ~ValidFormat(parts) THEN Line("Invalid filename format", filename)
      ELSE IF ~ValidPlatform(platform) THEN Line("Unknown platform", platform)
      ELSE IF DestFolder(platform, extension) = NoFolder
        THEN Line("Unknown file extension", extension)
      ELSE NoLine

\* line 136
FileType(extension) == IF extension = IMAGE_EXT THEN "Image" ELSE "Label"

\* line 139 as "except FileNotFoundError"
CaughtMissingFileOnly(exc) == exc = "FileNotFoundError"

\* line 139: except Exception catches every error of lines 92-137
Caught(exc) == exc \in {"FileNotFoundError", "PermissionError", "OSError"}


(***************************************************************************)
(* Initial state: the program has not created anything yet, the            *)
(* destination tree is empty and the watch folder holds no entries.        *)
(***************************************************************************)
NoStats == [i \in 1..Len(PLATFORMS) |-> <<0, 0>>]

Init ==
  /\ mpc = "setup"
  /\ obs = "new"
  /\ queue = <<>>
  /\ wpc = "Idle"
  /\ cur = NoName
  /\ curDest = NoPath
  /\ out = <<>>
  /\ done = <<>>
  /\ staging = <<>>
  /\ dest = <<>>
  /\ dirs = {}
  /\ clock = Now0
  /\ arrivals = 0
  /\ family \in Families
  /\ stats = NoStats

\* the process runs: neither aborted at startup nor exited
Running == mpc \notin {"aborted", "exited"}

(***************************************************************************)
(* The environment: producers write to the watch folder, time passes.      *)
(***************************************************************************)
\* the observer's emitter queues a creation event while it is scheduled
Emit(name, isdir) ==
  IF obs = "running"
    THEN queue' = Append(queue, [src_path |-> name, is_directory |-> isdir])
    ELSE UNCHANGED queue

\* a producer creates a file in the watch folder
CreateFile(name) ==
  /\ Running
  /\ arrivals < MaxArrivals
  /\ name \in family
  /\ name \notin DOMAIN staging
  /\ arrivals' = arrivals + 1
  /\ staging' = (name :> [id |-> arrivals + 1, isdir |-> FALSE]) @@ staging
  /\ Emit(name, FALSE)
  /\ UNCHANGED <<mpc, obs, wpc, cur, curDest, out, done, dest, dirs, clock,
                 family, stats>>

\* a producer creates a subdirectory in the watch folder
CreateDir(name) ==
  /\ Running
  /\ arrivals < MaxArrivals
  /\ name \in family
  /\ name \notin DOMAIN staging
  /\ arrivals' = arrivals + 1
  /\ staging' = (name :> [id |-> arrivals + 1, isdir |-> TRUE]) @@ staging
  /\ Emit(name, TRUE)
  /\ UNCHANGED <<mpc, obs, wpc, cur, curDest, out, done, dest, dirs, clock,
                 family, stats>>

\* a producer removes a file of the watch folder (a temporary file)
RemoveFile(name) ==
  /\ Running
  /\ name \in DOMAIN staging
  /\ ~staging[name].isdir
  /\ staging' = [n \in DOMAIN staging \ {name} |-> staging[n]]
  /\ UNCHANGED <<mpc, obs, queue, wpc, cur, curDest, out, done, dest, dirs,
                 clock, arrivals, family, stats>>

\* a second passes
Tick ==
  /\ Running
  /\ clock < Now0 + MaxTicks
  /\ clock' = clock + 1
  /\ UNCHANGED <<mpc, obs, queue, wpc, cur, curDest, out, done, staging, dest,
                 dirs, arrivals, family, stats>>

(***************************************************************************)
(* The observer thread: on_created (lines 60-80) and process_file          *)
(* (lines 83-140).                                                         *)
(***************************************************************************)
\* the handler call returns: the observer is ready for the next event
Return(lines, path) ==
  /\ done' = Append(IF Len(done) < MaxHistory THEN done ELSE Tail(done),
                    [name |-> cur, dispatched |-> wpc # "Settling",
                     lines |-> lines, path |-> path])
  /\ wpc' = "Idle"
  /\ cur' = NoName
  /\ curDest' = NoPath
  /\ out' = <<>>
  /\ UNCHANGED obs

\* an exception is raised inside the try block of process_file
Raise(exc) ==
  IF Caught(exc)
    THEN \* line 140
         Return(out \o <<Line("Error processing", cur \o <<": ", exc>>)>>, NoPath)
    ELSE \* the exception leaves on_created and ends the observer thread
         /\ wpc' = "Crashed"
         /\ obs' = "crashed"
         /\ UNCHANGED <<cur, curDest, out, done>>

\* on_created is started for an event whatever the handler is doing
HandlerFreeAlways == TRUE

\* lines 73-80 and 229-234: the one observer thread calls on_created, which
\* sleeps and calls process_file itself, so the next event waits for its
\* return
HandlerFree == wpc = "Idle"

\* lines 60-70: the observer takes the next event and calls on_created
OnCreated ==
  /\ Running
  /\ obs = "running"
  /\ HandlerFree
  /\ queue # <<>>
  /\ queue' = Tail(queue)
  /\ IF Head(queue).is_directory
       THEN UNCHANGED <<wpc, cur>>
       ELSE /\ wpc' = "Settling"
            /\ cur' = Head(queue).src_path
  /\ UNCHANGED <<mpc, obs, curDest, out, done, staging, dest, dirs, clock,
                 arrivals, family, stats>>

\* lines 76-77 left out
StillExistsUnchecked(filepath) == TRUE

\* line 76: os.path.exists(filepath)
StillExists(filepath) == filepath \in DOMAIN staging

\* lines 73-80: after time.sleep(0.5), the existence check
Settle ==
  /\ Running
  /\ wpc = "Settling"
  /\ IF ~StillExists(cur)
       THEN Return(<<>>, NoPath)
       ELSE /\ wpc' = "Dispatching"
            /\ UNCHANGED <<obs, cur, curDest, out, done>>
  /\ UNCHANGED <<mpc, queue, staging, dest, dirs, clock, arrivals, family, stats>>

\* lines 92-130: classification, makedirs and the choice of dest_path
ProcessFile ==
  /\ Running
  /\ wpc = "Dispatching"
  /\ LET parts == Split(cur)
         platform == PlatformOf(parts)
         extension == ExtensionOf(cur)
         dest_folder == DestFolder(platform, extension)
         exists == JoinPath(dest_folder, cur) \in DOMAIN dest
         dest_path == DestPath(dest_folder, cur, DOMAIN dest, clock)
     IN  IF Rejection(cur) # NoLine
           THEN \* lines 94-96, 102-104 and 114-116: print and return
                /\ Return(<<Rejection(cur)>>, NoPath)
                /\ UNCHANGED dirs
         ELSE \/ \* line 119: os.makedirs fails
                 /\ Raise("PermissionError")
                 /\ UNCHANGED dirs
              \/ \* lines 119-130
                 /\ dirs' = dirs \cup {dest_folder}
                 /\ curDest' = dest_path
                 /\ out' = IF exists
                             THEN <<Line("File already exists",
                                         PathText(JoinPath(dest_folder, cur)))>>
                             ELSE <<>>
                 /\ wpc' = "Moving"
                 /\ UNCHANGED <<obs, cur, done>>
  /\ UNCHANGED <<mpc, queue, staging, dest, clock, arrivals, family, stats>>

\* lines 133-140: shutil.move ends, the success line or the error line
MoveFile ==
  /\ Running
  /\ wpc = "Moving"
  /\ IF cur \notin DOMAIN staging
       THEN \* the source vanished before the move
            /\ Raise("FileNotFoundError")
            /\ UNCHANGED <<staging, dest>>
       ELSE \/ \* os.rename fails and nothing is copied
               /\ Raise("OSError")
               /\ UNCHANGED <<staging, dest>>
            \/ \* os.rename fails (other drive, file in use), shutil.move
               \* copies the file to dest_path and fails before or while it
               \* removes the source
               /\ dest' = (curDest :> staging[cur].id) @@ dest
               /\ Raise("OSError")
               /\ UNCHANGED staging
            \/ \* the move succeeds and replaces whatever is at dest_path
               /\ dest' = (curDest :> staging[cur].id) @@ dest
               /\ staging' = [n \in DOMAIN staging \ {cur} |-> staging[n]]
               /\ Return(out \o <<Line(FileType(ExtensionOf(cur)) \o " moved",
                                       curDest[1] \o <<"/">> \o cur)>>, curDest)
  /\ UNCHANGED <<mpc, queue, dirs, clock, arrivals, family, stats>>

\* the observer thread leaves its loop once it is stopped and no handler runs
ObserverExit ==
  /\ Running
  /\ obs = "stopping"
  /\ wpc = "Idle"
  /\ obs' = "stopped"
  /\ UNCHANGED <<mpc, queue, wpc, cur, curDest, out, done, staging, dest, dirs,
                 clock, arrivals, family, stats>>


(***************************************************************************)
(* The main thread: main (lines 214-253), setup_folders (lines 147-167)    *)
(* and print_statistics (lines 174-207).                                   *)
(***************************************************************************)
\* lines 158-163 without line 163: only the images directories
SetupDirsImagesOnly(k) ==
  {Folder(PLATFORMS[i], IMAGES) : i \in {j \in 1..Len(PLATFORMS) : 2*j - 1 <= k}}

\* the first k directories that the loop of lines 158-163 creates
SetupDirs(k) ==
  {Folder(PLATFORMS[i], IMAGES) : i \in {j \in 1..Len(PLATFORMS) : 2*j - 1 <= k}}
  \cup
  {Folder(PLATFORMS[i], LABELS) : i \in {j \in 1..Len(PLATFORMS) : 2*j <= k}}

\* an error of os.makedirs is swallowed: setup_folders always returns
SetupCompleteAnyway(k) == TRUE

\* setup_folders returns after the last os.makedirs call of line 163
SetupComplete(k) == k = 2 * Len(PLATFORMS)

\* line 223: setup_folders creates every directory, or an os.makedirs call
\* raises and the program ends at startup
SetupFolders ==
  /\ mpc = "setup"
  /\ \E k \in 0..(2 * Len(PLATFORMS)) :
       /\ dirs' = dirs \cup SetupDirs(k)
       /\ mpc' = IF SetupComplete(k) THEN "stats" ELSE "aborted"
  /\ UNCHANGED <<obs, queue, wpc, cur, curDest, out, done, staging, dest,
                 clock, arrivals, family, stats>>

\* lines 193-197: the files of a folder whose name ends with the extension
CountFiles(folder, ext) ==
  IF folder \in dirs
    THEN Cardinality({p \in DOMAIN dest :
                        <<p[1], p[2]>> = folder /\ EndsWith(p[3], ext)})
    ELSE 0

\* lines 185-203
Statistics ==
  [i \in 1..Len(PLATFORMS) |->
     <<CountFiles(Folder(PLATFORMS[i], IMAGES), IMAGE_EXT),
       CountFiles(Folder(PLATFORMS[i], LABELS), LABEL_EXT)>>]

\* lines 226 and 251: print_statistics at startup and before the exit
PrintStatistics ==
  /\ mpc \in {"stats", "final"}
  /\ stats' = Statistics
  /\ mpc' = IF mpc = "stats" THEN "start" ELSE "exited"
  /\ UNCHANGED <<obs, queue, wpc, cur, curDest, out, done, staging, dest, dirs,
                 clock, arrivals, family>>

\* lines 229-234: the handler is scheduled and the observer thread starts
ObserverStart ==
  /\ mpc = "start"
  /\ obs' = "running"
  /\ mpc' = "loop"
  /\ UNCHANGED <<queue, wpc, cur, curDest, out, done, staging, dest, dirs,
                 clock, arrivals, family, stats>>

\* lines 241-246: Ctrl+C ends the sleep loop and observer.stop() is called
KeyboardInterrupt ==
  /\ mpc = "loop"
  /\ obs' = IF obs = "running" THEN "stopping" ELSE obs
  /\ mpc' = "join"
  /\ UNCHANGED <<queue, wpc, cur, curDest, out, done, staging, dest, dirs,
                 clock, arrivals, family, stats>>

\* line 248 left out: main goes on without waiting for the observer thread
JoinReturnsAtOnce == TRUE

\* line 248: observer.join() returns when the observer thread has ended
JoinReturns == obs \in {"stopped", "crashed"}

\* line 248
ObserverJoin ==
  /\ mpc = "join"
  /\ JoinReturns
  /\ mpc' = "final"
  /\ UNCHANGED <<obs, queue, wpc, cur, curDest, out, done, staging, dest, dirs,
                 clock, arrivals, family, stats>>

Next ==
  \/ \E name \in Names : CreateFile(name)
  \/ \E name \in DirNames : CreateDir(name)
  \/ \E name \in Names : RemoveFile(name)
  \/ Tick
  \/ SetupFolders
  \/ PrintStatistics
  \/ ObserverStart
  \/ OnCreated
  \/ Settle
  \/ ProcessFile
  \/ MoveFile
  \/ KeyboardInterrupt
  \/ ObserverExit
  \/ ObserverJoin

Spec == Init /\ [][Next]_vars

TypeOK ==
  /\ mpc \in {"setup", "aborted", "stats", "start", "loop", "join", "final", "exited"}
  /\ obs \in {"new", "running", "stopping", "stopped", "crashed"}
  /\ wpc \in {"Idle", "Settling", "Dispatching", "Moving", "Crashed"}
  /\ DOMAIN staging \subseteq Names
  /\ arrivals \in 0..MaxArrivals
  /\ clock \in Now0..(Now0 + MaxTicks)


(***************************************************************************)
(* Vocabulary of the properties, computed from the file name alone.        *)
(***************************************************************************)
\* the number of '_'-delimited segments of a name
CountSegments(name) == Cardinality({i \in 1..Len(name) : name[i] = "_"}) + 1

\* the text before the first '_', lower-cased
FirstSegment(name) ==
  LET u == {i \in 1..Len(name) : name[i] = "_"}
      n == IF u = {} THEN Len(name) + 1
           ELSE CHOOSE i \in u : \A j \in u : i <= j
  IN  [i \in 1..(n - 1) |-> LowerChar(name[i])]

\* the text from the last '.', lower-cased
LastSuffix(name) ==
  LET d == {i \in 1..Len(name) :
              name[i] = "." /\ \E j \in 1..(i - 1) : name[j] # "."}
  IN  IF d = {} THEN <<>>
      ELSE LET m == CHOOSE i \in d : \A j \in d : j <= i
           IN  [i \in 1..(Len(name) - m + 1) |-> LowerChar(name[m + i - 1])]

\* the three, worked out once for every name of the model
NameFacts ==
  [n \in Names |-> [segments |-> CountSegments(n),
                    label |-> FirstSegment(n),
                    suffix |-> LastSuffix(n)]]

SegmentCount(name) == NameFacts[name].segments
LabelOf(name) == NameFacts[name].label
SuffixOf(name) == NameFacts[name].suffix

Registry == {PLATFORMS[i] : i \in 1..Len(PLATFORMS)}

WellNamed(name) ==
  /\ SegmentCount(name) >= 3
  /\ LabelOf(name) \in Registry
  /\ SuffixOf(name) \in {IMAGE_EXT, LABEL_EXT}

\* {label}/{images|labels}/{filename} of a well-named file
NaivePath(name) ==
  <<LabelOf(name), IF SuffixOf(name) = IMAGE_EXT THEN IMAGES ELSE LABELS, name>>

\* text mentions the whole of name
Mentions(text, name) ==
  \E k \in 1..(Len(text) - Len(name) + 1) :
     SubSeq(text, k, k + Len(name) - 1) = name

\* a handler call has just returned; LastCall' is its record
CallReturns == wpc # "Idle" /\ wpc' = "Idle"
LastCall == done[Len(done)]

\* this step is the end of a shutil.move that succeeded
MoveSucceeds == wpc = "Moving" /\ CallReturns /\ LastCall'.path # NoPath

(***************************************************************************)
(* C1: a successful placement never overwrites an existing destination     *)
(* file: the path handed to the move does not exist in the destination     *)
(* tree at the moment of the move.                                         *)
(***************************************************************************)
C1_NeverOverwrites ==
  [][MoveSucceeds => curDest \notin DOMAIN dest]_vars

(***************************************************************************)
(* C2: every file that is moved, or is being moved, has at least 3         *)
(* segments, a label of PLATFORMS and the extension IMAGE_EXT or           *)
(* LABEL_EXT; no file that fails one of the tests is moved.                *)
(***************************************************************************)
C2_OnlyWellNamedFilesMove ==
  /\ wpc = "Moving" => WellNamed(cur)
  /\ \A i \in 1..Len(done) : done[i].path # NoPath => WellNamed(done[i].name)

\* a file accepted through case-insensitive matching has been moved
C2_Witness ==
  \E i \in 1..Len(done) : done[i].name = NameUpper /\ done[i].path # NoPath

(***************************************************************************)
(* C3: no failure of a stage leaves the handler: the observer thread never *)
(* ends with an exception; it is alive whenever a handler call is in       *)
(* flight or events are still to be served, so that after every event,     *)
(* failed or not, the handler is back in Idle on a live thread.            *)
(***************************************************************************)
C3_FailuresStayInTheEvent ==
  /\ obs # "crashed"
  /\ wpc \in {"Idle", "Settling", "Dispatching", "Moving"}
  /\ wpc # "Idle" => obs \in {"running", "stopping"} /\ cur # NoName
  /\ \A i \in 1..Len(done) :
       (done[i].lines # <<>>
          /\ done[i].lines[Len(done[i].lines)].kind = "Error processing")
         => done[i].path = NoPath /\ Mentions(done[i].lines[Len(done[i].lines)].text, done[i].name)

\* a move failed and a later event was processed
C3_Witness ==
  \E i \in 1..Len(done) : \E j \in (i+1)..Len(done) :
     /\ done[i].lines # <<>>
     /\ done[i].lines[Len(done[i].lines)].kind = "Error processing"
     /\ done[j].dispatched

(***************************************************************************)
(* C4: when the classification of a file fails, process_file returns       *)
(* without a move and leaves the watch folder, the destination files and   *)
(* the destination directories as they were.                               *)
(***************************************************************************)
C4_RejectionChangesNothing ==
  [][(wpc = "Dispatching" /\ wpc' # "Dispatching" /\ ~WellNamed(cur))
       => /\ wpc' = "Idle"
          /\ LastCall'.path = NoPath
          /\ staging' = staging
          /\ dest' = dest
          /\ dirs' = dirs]_vars

\* scenario B: TIKTOK_123_1.jpg was rejected and is still in the watch folder
C4_Witness ==
  /\ \E i \in 1..Len(done) : done[i].name = NameTiktok /\ done[i].dispatched
  /\ NameTiktok \in DOMAIN staging
  /\ dest = <<>>

(***************************************************************************)
(* C5: with a file at the naive target path, a successful placement of a   *)
(* file of the same name leaves that file in place with its content, and   *)
(* the new file ends at another path of the same directory.                *)
(***************************************************************************)
C5_ExistingFileIsKept ==
  [][(MoveSucceeds /\ NaivePath(cur) \in DOMAIN dest)
       => LET naive == NaivePath(cur)
              final == LastCall'.path
          IN  /\ naive \in DOMAIN dest'
              /\ dest'[naive] = dest[naive]
              /\ final # naive
              /\ <<final[1], final[2]>> = <<naive[1], naive[2]>>
              /\ final \in DOMAIN dest'
              /\ dest'[final] = staging[cur].id]_vars

\* scenario C: reddit_1_1.txt arrived twice, both files are there
C5_Witness ==
  /\ Len(done) >= 2
  /\ done[1].name = NameReddit /\ done[1].path = NaivePath(NameReddit)
  /\ done[2].name = NameReddit /\ done[2].path \notin {NoPath, NaivePath(NameReddit)}
  /\ {done[1].path, done[2].path} \subseteq DOMAIN dest
  /\ dest[done[1].path] # dest[done[2].path]

(***************************************************************************)
(* C6: when the file is gone after the settle delay, on_created returns    *)
(* without calling process_file: nothing is printed, the destination tree  *)
(* is unchanged and the observer is ready for the next event.              *)
(***************************************************************************)
C6_VanishedFileIsDiscarded ==
  [][(wpc = "Settling" /\ wpc' # "Settling" /\ cur \notin DOMAIN staging)
       => /\ wpc' = "Idle"
          /\ ~LastCall'.dispatched
          /\ LastCall'.lines = <<>>
          /\ out' = <<>>
          /\ dest' = dest
          /\ dirs' = dirs
          /\ obs' = obs
          /\ obs # "crashed"]_vars

\* a badly named file vanished during the delay, and a later event was processed
C6_Witness ==
  \E i \in 1..Len(done) : \E j \in (i+1)..Len(done) :
     /\ done[i].name = NameTiktok
     /\ ~done[i].dispatched
     /\ done[i].lines = <<>>
     /\ done[j].dispatched

C8_OneLineNamingTheFile ==
  \A i \in 1..Len(done) :
     done[i].dispatched
       => /\ Len(done[i].lines) = 1
          /\ Mentions(done[i].lines[1].text, done[i].name)

(***************************************************************************)
(* C9: a filename with fewer than 3 segments is rejected with "Invalid     *)
(* filename format", whatever its first segment and its extension.         *)
(***************************************************************************)
C9_ShortNamesAreMalformed ==
  \A i \in 1..Len(done) :
     (done[i].dispatched /\ SegmentCount(done[i].name) < 3)
       => /\ done[i].lines = <<Line("Invalid filename format", done[i].name)>>
          /\ done[i].path = NoPath

\* reddit_1.txt, with a known label and the label extension, was rejected
C9_Witness ==
  \E i \in 1..Len(done) :
     /\ done[i].name = NameShortKnown
     /\ done[i].dispatched
     /\ done[i].lines # <<>>

(***************************************************************************)
(* C10, as claimed: a filename whose first segment, lower-cased, is not in *)
(* PLATFORMS is rejected with "Unknown platform".                          *)
(***************************************************************************)
C10_UnknownLabelAlways ==
  \A i \in 1..Len(done) :
     (done[i].dispatched /\ LabelOf(done[i].name) \notin Registry)
       => /\ done[i].lines = <<Line("Unknown platform", LabelOf(done[i].name))>>
          /\ done[i].path = NoPath

(***************************************************************************)
(* C10, amended: a filename with at least 3 segments whose first segment,  *)
(* lower-cased, is not in PLATFORMS is rejected with "Unknown platform".   *)
(***************************************************************************)
C10_UnknownLabel ==
  \A i \in 1..Len(done) :
     (/\ done[i].dispatched
      /\ SegmentCount(done[i].name) >= 3
      /\ LabelOf(done[i].name) \notin Registry)
       => /\ done[i].lines = <<Line("Unknown platform", LabelOf(done[i].name))>>
          /\ done[i].path = NoPath

\* TIKTOK_123_1.jpg was rejected
C10_Witness ==
  \E i \in 1..Len(done) :
     /\ done[i].name = NameTiktok
     /\ done[i].dispatched
     /\ done[i].lines # <<>>


(***************************************************************************)
(* Vocabulary of the properties of resolution and of the directories.      *)
(***************************************************************************)
RejectionKinds ==
  {"Invalid filename format", "Unknown platform", "Unknown file extension"}

\* the images and labels directory of every platform
AllFolders ==
  {<<PLATFORMS[i], IMAGES>> : i \in 1..Len(PLATFORMS)}
  \cup {<<PLATFORMS[i], LABELS>> : i \in 1..Len(PLATFORMS)}

\* the name up to the last dot, and from the last dot, as written
StemOf(name) == SubSeq(name, 1, Len(name) - Len(SuffixOf(name)))
TailOf(name) == SubSeq(name, Len(name) - Len(SuffixOf(name)) + 1, Len(name))

RECURSIVE DecimalValue(_)
\* the number a sequence of decimal digits writes, -1 when it is not one
DecimalValue(ds) ==
  IF ds = <<>> THEN 0
  ELSE LET d == ds[Len(ds)]
           v == IF \E k \in 0..9 : Digit(k) = d
                  THEN CHOOSE k \in 0..9 : Digit(k) = d ELSE -1
           r == DecimalValue(SubSeq(ds, 1, Len(ds) - 1))
       IN  IF v < 0 \/ r < 0 THEN -1 ELSE 10 * r + v

\* new is stem_dup_{now}ext for the stem and the extension of name
IsDuplicateName(new, name, now) ==
  LET b == Len(StemOf(name))
      e == Len(TailOf(name))
  IN  /\ Len(new) > b + 5 + e
      /\ SubSeq(new, 1, b) = StemOf(name)
      /\ SubSeq(new, b + 1, b + 5) = <<"_","d","u","p","_">>
      /\ DecimalValue(SubSeq(new, b + 6, Len(new) - e)) = now
      /\ new[b + 6] # "0"
      /\ SubSeq(new, Len(new) - e + 1, Len(new)) = TailOf(name)

\* the reason the order of the checks gives to a name that is not well named
ExpectedReason(name) ==
  IF SegmentCount(name) < 3 THEN "Invalid filename format"
  ELSE IF LabelOf(name) \notin Registry THEN "Unknown platform"
  ELSE "Unknown file extension"

\* the paths of the calls on record that moved their file and are still there
PlacedPaths ==
  {done[j].path : j \in {k \in 1..Len(done) : done[k].path # NoPath}}
  \cap DOMAIN dest

(***************************************************************************)
(* C11, as claimed: a filename with a recognized label and the image or    *)
(* the label extension is classified as Image or Label, never rejected.    *)
(***************************************************************************)
C11_KindAlways ==
  \A i \in 1..Len(done) :
     (/\ done[i].dispatched
      /\ LabelOf(done[i].name) \in Registry
      /\ SuffixOf(done[i].name) \in {IMAGE_EXT, LABEL_EXT})
       => done[i].lines[1].kind \notin RejectionKinds

(***************************************************************************)
(* C11, amended: a filename with at least 3 segments, a recognized label   *)
(* and the image (label) extension in any case is not rejected, is         *)
(* destined for the images (labels) directory of its label, and is         *)
(* reported as Image (Label) when it is moved.                             *)
(***************************************************************************)
C11_Kind ==
  /\ (wpc = "Moving" /\ WellNamed(cur))
       => <<curDest[1], curDest[2]>> = <<NaivePath(cur)[1], NaivePath(cur)[2]>>
  /\ \A i \in 1..Len(done) :
       (done[i].dispatched /\ WellNamed(done[i].name))
         => /\ done[i].lines[1].kind \notin RejectionKinds
            /\ done[i].path # NoPath
                 => /\ done[i].path[1] = LabelOf(done[i].name)
                    /\ done[i].path[2] =
                         (IF SuffixOf(done[i].name) = IMAGE_EXT
                            THEN IMAGES ELSE LABELS)
                    /\ done[i].lines[Len(done[i].lines)].kind =
                         (IF SuffixOf(done[i].name) = IMAGE_EXT
                            THEN "Image moved" ELSE "Label moved")

\* Twitter_1_1.JPG was moved to twitter/images
C11_Witness ==
  \E i \in 1..Len(done) :
     /\ done[i].name = NameUpper
     /\ done[i].path = <<PLATFORMS[1], IMAGES, NameUpper>>

(***************************************************************************)
(* C12: with no file at the candidate path the path handed to the move is  *)
(* {label}/{images|labels}/{filename} with the filename as it arrived, and *)
(* resolving against an empty destination gives that path at any time.     *)
(***************************************************************************)
C12_NaivePathWhenFree ==
  /\ (wpc = "Moving" /\ NaivePath(cur) \notin DOMAIN dest)
       => curDest = NaivePath(cur)
  /\ wpc = "Moving"
       => \A t \in Now0..(Now0 + MaxTicks) :
            DestPath(DestFolder(PlatformOf(Split(cur)), ExtensionOf(cur)),
                     cur, {}, t) = NaivePath(cur)
  /\ \A i \in 1..Len(done) :
       (done[i].path # NoPath /\ Len(done[i].lines) = 1)
         => done[i].path = NaivePath(done[i].name)

\* scenario A: twitter_1730912345678_0347.jpg is at twitter/images
C12_Witness ==
  \E i \in 1..Len(done) :
     /\ done[i].name = NameTwitter
     /\ done[i].path = <<PLATFORMS[1], IMAGES, NameTwitter>>
     /\ done[i].path \in DOMAIN dest

(***************************************************************************)
(* C13: with a file at the candidate path the path handed to the move is   *)
(* in the same directory and its name is the base name, "_dup_", the       *)
(* current time in whole seconds and the extension as written; this holds  *)
(* whether or not a file of that name exists (a single pass).              *)
(***************************************************************************)
C13_DuplicateName ==
  [][(wpc = "Dispatching" /\ wpc' = "Moving" /\ NaivePath(cur) \in DOMAIN dest)
       => /\ curDest' # NaivePath(cur)
          /\ <<curDest'[1], curDest'[2]>> = <<NaivePath(cur)[1], NaivePath(cur)[2]>>
          /\ IsDuplicateName(curDest'[3], cur, clock)]_vars

\* the duplicate name is handed to the move although a file has it already
C13_Witness ==
  /\ wpc = "Moving"
  /\ curDest # NaivePath(cur)
  /\ curDest \in DOMAIN dest

(***************************************************************************)
(* C14: when the source is gone at the move or the move fails, the call    *)
(* ends with one error line that names the file, the destination files     *)
(* are as before the call and the handler is back in Idle.                 *)
(***************************************************************************)
C14_FailedMoveLeavesNothing ==
  [][(wpc = "Moving" /\ CallReturns /\ LastCall'.path = NoPath)
       => /\ LastCall'.lines[Len(LastCall'.lines)].kind = "Error processing"
          /\ Mentions(LastCall'.lines[Len(LastCall'.lines)].text, cur)
          /\ dest' = dest
          /\ obs' = obs]_vars

(***************************************************************************)
(* C15: once the observer is started, the images and the labels directory  *)
(* of every platform exist, whether or not a file has arrived.             *)
(***************************************************************************)
C15_FoldersBeforeWatching ==
  (obs # "new" \/ queue # <<>> \/ wpc # "Idle") => AllFolders \subseteq dirs

\* the observer runs and no entry has been created in the watch folder
C15_Witness == obs = "running" /\ arrivals = 0 /\ AllFolders \subseteq dirs

(***************************************************************************)
(* C16: events are handled one at a time: while a handler call is in       *)
(* flight no event is taken from the queue and the call is not replaced;   *)
(* the destination files change only by the move of the call in flight,    *)
(* at its dest_path, and the directories only in setup_folders or in the   *)
(* call in flight.                                                         *)
(***************************************************************************)
C16_OneEventAtATime ==
  [][/\ wpc # "Idle" => Len(queue') >= Len(queue)
     /\ (wpc # "Idle" /\ wpc' # "Idle") => cur' = cur
     /\ dest' # dest
          => /\ wpc = "Moving" /\ wpc' = "Idle"
             /\ \A p \in DOMAIN dest' \ {curDest} :
                  p \in DOMAIN dest /\ dest'[p] = dest[p]
     /\ dirs' # dirs
          => (mpc = "setup" /\ obs = "new") \/ wpc = "Dispatching"]_vars

\* an event waits in the queue while the move of another is in flight
C16_Witness == wpc = "Moving" /\ queue # <<>>

(***************************************************************************)
(* C17: a rejected file gets exactly one warning, that of the first check  *)
(* it fails in the order segment count, label, extension.                  *)
(***************************************************************************)
C17_FirstFailedCheckOnly ==
  \A i \in 1..Len(done) :
     (done[i].dispatched /\ ~WellNamed(done[i].name))
       => /\ Len(done[i].lines) = 1
          /\ done[i].lines[1].kind = ExpectedReason(done[i].name)

\* tiktok_1_1.png fails the label and the extension check: unknown platform
C17_Witness ==
  \E i \in 1..Len(done) :
     /\ done[i].name = NameTiktokPng
     /\ done[i].lines = <<Line("Unknown platform", LabelOf(NameTiktokPng))>>

(***************************************************************************)
(* C18: once the observer is started no step adds a directory, and the     *)
(* directory of every dest_path is the images or labels directory of a     *)
(* platform of PLATFORMS, in lower case.                                   *)
(***************************************************************************)
C18_NoNewDirectories ==
  [][/\ obs # "new" => dirs' = dirs
     /\ wpc' = "Moving" => <<curDest'[1], curDest'[2]>> \in AllFolders]_vars

\* Twitter_1_1.JPG was moved and the directories are those of setup_folders
C18_Witness ==
  /\ \E i \in 1..Len(done) : done[i].name = NameUpper /\ done[i].path # NoPath
  /\ dirs = AllFolders

(***************************************************************************)
(* C19: the counts of the last print_statistics cover every file that was  *)
(* moved to the images (labels) directory of a platform and is there.      *)
(***************************************************************************)
C19_CountsCoverPlacedFiles ==
  mpc = "exited"
    => \A i \in 1..Len(PLATFORMS) :
         /\ stats[i][1] >= Cardinality({p \in PlacedPaths :
                              p[1] = PLATFORMS[i] /\ p[2] = IMAGES})
         /\ stats[i][2] >= Cardinality({p \in PlacedPaths :
                              p[1] = PLATFORMS[i] /\ p[2] = LABELS})

====
